---- MODULE Spec2Model ----
(***************************************************************************)
(* A model of the notebook Exploring_PACE_OCI_SFREFL_clean2.ipynb: the     *)
(* cells that mask, transpose, regrid, brightness-adjust, sample and       *)
(* index a PACE OCI surface-reflectance cube, and the point-draw events    *)
(* of the interactive plot.                                                *)
(*                                                                         *)
(* Floating-point values are modelled as fixed-point numbers with Scale    *)
(* units per 1.0, together with the IEEE specials NaN, +Inf and -Inf.      *)
(***************************************************************************)
EXTENDS Integers, Sequences, FiniteSets, TLC

(***************************************************************************)
(* Floating-point values                                                   *)
(***************************************************************************)
\* fixed-point units per 1.0
Scale == 100 * 100

Num(x) == [k |-> "num", v |-> x]
NaN == [k |-> "nan", v |-> 0]
PosInf == [k |-> "inf", v |-> 1]
NegInf == [k |-> "inf", v |-> -1]

IsNum(a) == a.k = "num"
IsNaN(a) == a.k = "nan"
IsInf(a) == a.k = "inf"

Abs(n) == IF n < 0 THEN -n ELSE n
Sign(n) == IF n < 0 THEN -1 ELSE IF n > 0 THEN 1 ELSE 0
\* sign of a value that is not NaN
SignOf(a) == IF IsInf(a) THEN a.v ELSE Sign(a.v)
Inf(s) == IF s < 0 THEN NegInf ELSE PosInf

\* magnitude beyond which a fixed-point result is carried as an infinity
MaxMag == 30000 * Scale

Sat(n) == IF Abs(n) > MaxMag THEN Inf(n) ELSE Num(n)

\* integer quotient rounded toward zero
QuoT(a, b) == Sign(a) * Sign(b) * (Abs(a) \div Abs(b))

\* a * b / Scale on fixed-point integers, without leaving 32 bits
MulInt(a, b) ==
    LET aa == Abs(a)
        bb == Abs(b)
        ah == aa \div Scale
        al == aa % Scale
        bh == bb \div Scale
        bl == bb % Scale
        s  == Sign(a) * Sign(b)
    IN  IF ah > 0 /\ bh > 0 /\ ah * bh > 30000
        THEN s * (MaxMag + 1)
        ELSE s * (ah * bh * Scale + ah * bl + al * bh + (al * bl) \div Scale)

\* a * Scale / b on fixed-point integers (b # 0), without leaving 32 bits
DivInt(a, b) ==
    LET aa == Abs(a)
        bb == Abs(b)
        q  == aa \div bb
        r  == aa % bb
        s  == Sign(a) * Sign(b)
    IN  IF q > 30000
        THEN s * (MaxMag + 1)
        ELSE IF r <= 200000
             THEN s * (q * Scale + (r * Scale) \div bb)
             ELSE s * (q * Scale + ((r \div 100) * Scale) \div (bb \div 100))

\* a variant of FDiv: a "safe" division that yields 0 for a zero divisor
FDivSafe(a, b) ==
    IF IsNaN(a) \/ IsNaN(b) THEN NaN
    ELSE IF IsInf(a) THEN (IF IsInf(b) THEN NaN
                           ELSE Inf(a.v * (IF b.v < 0 THEN -1 ELSE 1)))
    ELSE IF IsInf(b) THEN Num(0)
    ELSE IF b.v = 0 THEN Num(0)
    ELSE Sat(DivInt(a.v, b.v))

\* IEEE-754 division as numpy performs it: no exception, inf and nan results
FDiv(a, b) ==
    IF IsNaN(a) \/ IsNaN(b) THEN NaN
    ELSE IF IsInf(a) THEN (IF IsInf(b) THEN NaN
                           ELSE Inf(a.v * (IF b.v < 0 THEN -1 ELSE 1)))
    ELSE IF IsInf(b) THEN Num(0)
    ELSE IF b.v = 0 THEN (IF a.v = 0 THEN NaN ELSE Inf(a.v))
    ELSE Sat(DivInt(a.v, b.v))

FSub(a, b) ==
    IF IsNaN(a) \/ IsNaN(b) THEN NaN
    ELSE IF IsInf(a) THEN (IF IsInf(b) /\ a.v = b.v THEN NaN ELSE a)
    ELSE IF IsInf(b) THEN Inf(-b.v)
    ELSE Sat(a.v - b.v)

FMul(a, b) ==
    IF IsNaN(a) \/ IsNaN(b) THEN NaN
    ELSE IF IsInf(a) \/ IsInf(b)
         THEN (IF SignOf(a) = 0 \/ SignOf(b) = 0 THEN NaN
               ELSE Inf(SignOf(a) * SignOf(b)))
    ELSE Sat(MulInt(a.v, b.v))

\* a < b as IEEE compares: false when either side is NaN
FLt(a, b) ==
    IF IsNaN(a) \/ IsNaN(b) THEN FALSE
    ELSE IF IsInf(a) THEN a.v < 0 /\ ~(IsInf(b) /\ b.v < 0)
    ELSE IF IsInf(b) THEN b.v > 0
    ELSE a.v < b.v

(***************************************************************************)
(* math.log and numpy.power on fixed-point numbers                         *)
(***************************************************************************)
\* ln 2 in fixed-point units
Ln2 == (6931 * Scale) \div 10000

RECURSIVE LnReduce(_, _)
\* bring x into [Scale, 2 * Scale), counting the halvings
LnReduce(x, e) ==
    IF x >= 2 * Scale THEN LnReduce(x \div 2, e + 1)
    ELSE IF x < Scale THEN LnReduce(2 * x, e - 1)
    ELSE <<x, e>>

\* ln(x / Scale) * Scale for x > 0:  2 * atanh((x - 1) / (x + 1)) + e * ln 2
LnInt(x) ==
    LET r  == LnReduce(x, 0)
        m  == r[1]
        z  == ((m - Scale) * Scale * 2 + (m + Scale)) \div (2 * (m + Scale))
        z2 == (z * z) \div Scale
        z3 == (z * z2) \div Scale
        z5 == (z3 * z2) \div Scale
        z7 == (z5 * z2) \div Scale
        z9 == (z7 * z2) \div Scale
    IN  (2 * (105 * z + 35 * z3 + 21 * z5 + 15 * z7) + 52) \div 105
        + (2 * z9) \div 9 + r[2] * Ln2

RECURSIVE Pow2(_)
Pow2(n) == IF n = 0 THEN 1 ELSE 2 * Pow2(n - 1)

RECURSIVE ExpSeries(_, _, _, _)
\* the Taylor series of e^r from term n on, r in [0, ln 2)
ExpSeries(r, term, n, acc) ==
    IF term = 0 \/ n > 12 THEN acc
    ELSE LET t == (term * r) \div (n * Scale)
         IN  ExpSeries(r, t, n + 1, acc + t)

\* e^(y / Scale) as a value: overflow to +Inf, underflow to 0
ExpVal(y) ==
    IF y > 10 * Scale THEN PosInf
    ELSE IF y < -20 * Scale THEN Num(0)
    ELSE LET e == y \div Ln2
             r == y - e * Ln2
             m == ExpSeries(r, Scale, 1, Scale)
         IN  IF e >= 0 THEN Num(m * Pow2(e)) ELSE Num(m \div Pow2(-e))

\* numpy.power(x, g) for a non-negative finite or infinite x and a real g
\* (g a fixed-point integer, or NaN)
FPow(x, g) ==
    IF IsNaN(x) \/ IsNaN(g) THEN NaN
    ELSE IF g.v = 0 /\ IsNum(g) THEN Num(Scale)
    ELSE IF IsInf(x) THEN (IF SignOf(g) > 0 THEN PosInf ELSE Num(0))
    ELSE IF x.v = 0 THEN (IF SignOf(g) > 0 THEN Num(0) ELSE PosInf)
    ELSE IF x.v = Scale THEN Num(Scale)
    ELSE IF IsInf(g)
         THEN (IF (x.v > Scale) = (g.v > 0) THEN PosInf ELSE Num(0))
    ELSE ExpVal(MulInt(g.v, LnInt(x.v)))

\* numpy.clip(a, lo, hi): NaN stays NaN
FClip(a, lo, hi) ==
    IF IsNaN(a) THEN NaN
    ELSE IF FLt(a, Num(lo)) THEN Num(lo)
    ELSE IF FLt(Num(hi), a) THEN Num(hi)
    ELSE a

(***************************************************************************)
(* Sequences                                                               *)
(***************************************************************************)
Range(s) == {s[i] : i \in DOMAIN s}

Min(S) == CHOOSE x \in S : \A y \in S : x <= y
Max(S) == CHOOSE x \in S : \A y \in S : x >= y

RECURSIVE SeqsUpTo(_, _)
\* the sequences over S of length at most n
SeqsUpTo(S, n) ==
    IF n = 0 THEN {<<>>}
    ELSE LET R == SeqsUpTo(S, n - 1)
         IN  R \cup {Append(r, x) : r \in {q \in R : Len(q) = n - 1}, x \in S}

(***************************************************************************)
(* Label lookup with method="nearest" (xarray .sel on a pandas index)      *)
(***************************************************************************)
IsIncreasing(W) == \A i \in 1..(Len(W) - 1) : W[i] < W[i + 1]
IsDecreasing(W) == \A i \in 1..(Len(W) - 1) : W[i] > W[i + 1]

\* position of the label padded from (the last one not past t in index
\* order), 0 when there is none
PadIdx(W, t) ==
    LET S == IF IsIncreasing(W) THEN {i \in DOMAIN W : W[i] <= t}
                                ELSE {i \in DOMAIN W : W[i] >= t}
    IN  IF S = {} THEN 0 ELSE Max(S)

\* position of the label back-filled from (the first one not before t in
\* index order), 0 when there is none
BackfillIdx(W, t) ==
    LET S == IF IsIncreasing(W) THEN {i \in DOMAIN W : W[i] >= t}
                                ELSE {i \in DOMAIN W : W[i] <= t}
    IN  IF S = {} THEN 0 ELSE Min(S)

\* a variant of NearestPick: the left neighbour wins every tie
NearestPickLeft(W, t, left, right) ==
    IF Abs(W[left] - t) <= Abs(W[right] - t) THEN left ELSE right

\* the left neighbour wins a tie on a decreasing index only
NearestPick(W, t, left, right) ==
    LET ld == Abs(W[left] - t)
        rd == Abs(W[right] - t)
    IN  IF (IF IsIncreasing(W) THEN ld < rd ELSE ld <= rd) THEN left ELSE right

\* index.get_indexer([t], method="nearest"): the position of the label
\* nearest to t; 0 when the lookup raises (an empty index, or an index that
\* is neither increasing nor decreasing, duplicates included)
NearestIdx(W, t) ==
    IF Len(W) = 0 \/ ~(IsIncreasing(W) \/ IsDecreasing(W)) THEN 0
    ELSE LET left  == PadIdx(W, t)
             right == BackfillIdx(W, t)
         IN  IF right = 0 THEN left
             ELSE IF left = 0 THEN right
             ELSE NearestPick(W, t, left, right)

(***************************************************************************)
(* The scene: the granule's arrays as read into ds                         *)
(***************************************************************************)
\* the wavelength_3d coordinate of the main pipeline (nm), scaled down to
\* four bands
SceneWavelengths == <<495, 560, 705, 800>>

\* swath geolocation layouts, one <<longitude, latitude>> per pixel, in
\* units of 1e-4 degree; lines of two pixels each
LonWest == -854400
LatSouth == 313000
Extent == 1200
GeoRegular ==
    << <<LonWest, LatSouth + Extent>>, <<LonWest + Extent, LatSouth + Extent>>,
       <<LonWest, LatSouth>>, <<LonWest + Extent, LatSouth>> >>
GeoSkewed ==
    << <<LonWest, LatSouth + Extent>>, <<LonWest + Extent, LatSouth + Extent>>,
       <<LonWest, LatSouth>>, <<LonWest + 480, LatSouth + 720>> >>
GeoLayouts == {GeoRegular, GeoSkewed}

\* the flag sets a pixel of l2_flags may decode to
FlagSets == {{}, {"LAND"}, {"CLDICE"}, {"LAND", "CLDICE"}}

\* reflectance of band b at swath pixel p in the main pipeline: all distinct
SceneRho(b, p) == Num(500 + 1000 * b + 100 * p)

(***************************************************************************)
(* State                                                                   *)
(***************************************************************************)
VARIABLES
    pc,             \* the next notebook cell to run
    band_target,    \* the wavelength the first band selection asks for
    wavelength_3d,  \* ds["wavelength_3d"]
    l2_flags,       \* ds["l2_flags"]: per swath pixel, its active flags
    geoloc,         \* ds longitude/latitude: per swath pixel
    obj,            \* the DataArray objects, by identity
    buf,            \* the ndarray buffers, by identity
    env,            \* the notebook's names: name -> DataArray identity
    cldwater_mask,  \* per swath pixel
    grid,           \* the coordinates of the regridded cube
    bright,         \* the bright argument of the gamma_adjust call
    gamma_locals,   \* mean_valid, gamma and the outcome of the last call
    points_stream,  \* points_stream.data, one record per point
    events,         \* point-draw events so far
    data,           \* the export cell's data
    rows,           \* the export cell's rows
    csv_file,       \* pace_interactive_plot_data.csv: the lines written
    event_limit,    \* point-draw events of the session the model follows
    last_event      \* what the last point-draw event did

vars == <<pc, band_target, wavelength_3d, l2_flags, geoloc, obj, buf, env, cldwater_mask,
          grid, bright, gamma_locals, points_stream, events, data, rows,
          csv_file, event_limit, last_event>>

Names == {"ds_rhos", "rhos_860", "rhos", "sr_src", "sr_dst", "rgb_da",
          "sr_800", "sr_705", "sr_495", "cire", "car"}

\* the identity no name is bound to
None == 0

(***************************************************************************)
(* DataArray objects and their buffers                                     *)
(***************************************************************************)
\* A buffer holds one sequence of cells per band.  An object exposes the
\* bands `bands` of its buffer, labelled `wl`; `dims` is its dimension
\* order and `space` the geometry of its cells.
DataArray(b, bands, wl, dims, space) ==
    [buf |-> b, bands |-> bands, wl |-> wl, dims |-> dims, space |-> space]

\* the values of object o: one sequence of cells per exposed band
Values(o) == [i \in DOMAIN obj[o].bands |-> buf[obj[o].buf][obj[o].bands[i]]]

NBands(o) == Len(obj[o].bands)
Cells(o) == IF NBands(o) = 0 THEN {} ELSE DOMAIN Values(o)[1]

\* the identity a new object or buffer gets
NewObj == Len(obj) + 1
NewBuf == Len(buf) + 1

\* .sel({"wavelength_3d": t}, method="nearest") with a scalar label: a
\* DataArray without the band dimension, a view of o's buffer
SelScalar(o, t) ==
    LET i == NearestIdx(obj[o].wl, t)
    IN  DataArray(obj[o].buf, <<obj[o].bands[i]>>, <<obj[o].wl[i]>>,
                  "yx", obj[o].space)

\* the band positions .sel(wavelength_3d=ts, method="nearest") picks for a
\* list of labels
SelPositions(o, ts) == [k \in DOMAIN ts |-> NearestIdx(obj[o].wl, ts[k])]

\* whether a nearest lookup of every label of ts succeeds on o
SelOk(o, ts) == \A k \in DOMAIN ts : NearestIdx(obj[o].wl, ts[k]) # 0

(***************************************************************************)
(* Cell: rhos_860 = ds["rhos"].sel({"wavelength_3d": 860}, ...)            *)
(***************************************************************************)
SelBandCell ==
    /\ pc = "sel860"
    /\ IF SelOk(env["ds_rhos"], <<band_target>>)
       THEN /\ obj' = Append(obj, SelScalar(env["ds_rhos"], band_target))
            /\ env' = [env EXCEPT !["rhos_860"] = NewObj]
            /\ pc' = "mask"
       ELSE /\ pc' = "error"
            /\ UNCHANGED <<obj, env>>
    /\ UNCHANGED <<band_target, wavelength_3d, l2_flags, geoloc, buf, cldwater_mask, grid,
                   bright, gamma_locals, points_stream, events, data, rows,
                   csv_file, event_limit, last_event>>

(***************************************************************************)
(* Cell: cldwater_mask and rhos = ds["rhos"].where(cldwater_mask)          *)
(***************************************************************************)
\* a variant of BuildMask: the exclusion of CLDICE left out
BuildMaskLandOnly(flags) == [p \in DOMAIN flags |-> "LAND" \in flags[p]]

\* (flags.cf == "LAND") & ~(flags.cf == "CLDICE"), per pixel
BuildMask(flags) ==
    [p \in DOMAIN flags |-> ("LAND" \in flags[p]) /\ ~("CLDICE" \in flags[p])]

\* DataArray.where(mask): the value where the mask is true, NaN elsewhere
Where(cube, mask) ==
    [b \in DOMAIN cube |->
        [p \in DOMAIN cube[b] |-> IF mask[p] THEN cube[b][p] ELSE NaN]]

MaskCell ==
    /\ pc = "mask"
    /\ cldwater_mask' = BuildMask(l2_flags)
    /\ buf' = Append(buf, Where(Values(env["ds_rhos"]), BuildMask(l2_flags)))
    /\ obj' = Append(obj, DataArray(NewBuf,
                                    [b \in 1..NBands(env["ds_rhos"]) |-> b],
                                    obj[env["ds_rhos"]].wl,
                                    obj[env["ds_rhos"]].dims, "swath"))
    /\ env' = [env EXCEPT !["rhos"] = NewObj]
    /\ pc' = "transpose"
    /\ UNCHANGED <<band_target, wavelength_3d, l2_flags, geoloc, grid, bright, gamma_locals,
                   points_stream, events, data, rows,
                   csv_file, event_limit, last_event>>

(***************************************************************************)
(* Cell: sr_src = rhos.transpose("wavelength_3d", ...)                     *)
(***************************************************************************)
\* a variant of Transpose: the dimensions left in the order of the file
TransposeKept(o) == obj[o]

\* the band dimension moved first; the result views the same buffer
Transpose(o) == [obj[o] EXCEPT !.dims = "byx"]

TransposeCell ==
    /\ pc = "transpose"
    /\ obj' = Append(obj, Transpose(env["rhos"]))
    /\ env' = [env EXCEPT !["sr_src"] = NewObj]
    /\ pc' = "reproject"
    /\ UNCHANGED <<band_target, wavelength_3d, l2_flags, geoloc, buf, cldwater_mask, grid,
                   bright, gamma_locals, points_stream, events, data, rows,
                   csv_file, event_limit, last_event>>

(***************************************************************************)
(* Cell: sr_dst = sr_src.rio.reproject(..., nodata=np.nan,                 *)
(*                 resampling=Resampling.nearest)                          *)
(***************************************************************************)
\* columns and rows of the destination grid
GridNX == 2
GridNY == 2

Lons(geo) == {geo[p][1] : p \in DOMAIN geo}
Lats(geo) == {geo[p][2] : p \in DOMAIN geo}

\* width and height of a destination cell
CellDX(geo) == (Max(Lons(geo)) - Min(Lons(geo))) \div GridNX
CellDY(geo) == (Max(Lats(geo)) - Min(Lats(geo))) \div GridNY

\* the destination grid over the bounding box of the geolocation arrays:
\* cell-centre longitudes west to east, cell-centre latitudes north to south
DstGrid(geo) ==
    LET west  == Min(Lons(geo))
        north == Max(Lats(geo))
        dx    == CellDX(geo)
        dy    == CellDY(geo)
    IN  [lon |-> [i \in 1..GridNX |-> west + ((2 * i - 1) * dx) \div 2],
         lat |-> [j \in 1..GridNY |-> north - ((2 * j - 1) * dy) \div 2],
         dx |-> dx, dy |-> dy]

\* cells are numbered row by row, the northern row first
CellOf(g, ix, iy) == (iy - 1) * Len(g.lon) + ix
CellLon(g, c) == g.lon[((c - 1) % Len(g.lon)) + 1]
CellLat(g, c) == g.lat[((c - 1) \div Len(g.lon)) + 1]

\* squared distance between swath pixel p and the point (x, y)
Dist2(geo, p, x, y) ==
    (geo[p][1] - x) * (geo[p][1] - x) + (geo[p][2] - y) * (geo[p][2] - y)

\* a variant of NearestPixel: the first pixel of the swath, however far
NearestPixelFirstSeen(geo, x, y) == Min(DOMAIN geo)

\* the swath pixel nearest to (x, y), the first one of several as near
NearestPixel(geo, x, y) ==
    Min({p \in DOMAIN geo :
            \A q \in DOMAIN geo : Dist2(geo, p, x, y) <= Dist2(geo, q, x, y)})

\* a source pixel is within resampling range of a cell centre when it lies
\* within half the cell's diagonal of it
InRange(geo, g, p, x, y) ==
    4 * Dist2(geo, p, x, y) <= g.dx * g.dx + g.dy * g.dy

\* nearest-neighbour resampling of a band-major cube onto grid g, NaN where
\* no source pixel is in range
Reproject(cube, geo, g) ==
    [b \in DOMAIN cube |->
        [c \in 1..(Len(g.lon) * Len(g.lat)) |->
            LET p == NearestPixel(geo, CellLon(g, c), CellLat(g, c))
            IN  IF InRange(geo, g, p, CellLon(g, c), CellLat(g, c))
                THEN cube[b][p] ELSE NaN]]

ReprojectCell ==
    /\ pc = "reproject"
    /\ IF obj[env["sr_src"]].dims = "byx"
       THEN /\ grid' = DstGrid(geoloc)
            /\ buf' = Append(buf, Reproject(Values(env["sr_src"]), geoloc,
                                            grid'))
            /\ obj' = Append(obj, DataArray(NewBuf,
                                    [b \in 1..NBands(env["sr_src"]) |-> b],
                                    obj[env["sr_src"]].wl, "byx", "grid"))
            /\ env' = [env EXCEPT !["sr_dst"] = NewObj]
            /\ pc' = "rgb"
       ELSE /\ pc' = "error"
            /\ UNCHANGED <<grid, buf, obj, env>>
    /\ UNCHANGED <<band_target, wavelength_3d, l2_flags, geoloc, cldwater_mask, bright,
                   gamma_locals, points_stream, events, data, rows,
                   csv_file, event_limit, last_event>>

(***************************************************************************)
(* Cell: rgb_da = sr_dst.sel(wavelength_3d=[650, 560, 470], ...)           *)
(***************************************************************************)
RgbTargets == <<650, 560, 470>>

\* a variant of RgbCell: rgb_da = sr_dst, no selection, so that rgb_da and
\* sr_dst name one object
RgbCellAlias ==
    /\ pc = "rgb"
    /\ env' = [env EXCEPT !["rgb_da"] = env["sr_dst"]]
    /\ pc' = "gamma"
    /\ UNCHANGED <<band_target, wavelength_3d, l2_flags, geoloc, obj, buf,
                   cldwater_mask, grid, bright, gamma_locals, points_stream,
                   events, data, rows,
                   csv_file, event_limit, last_event>>

\* a list of labels selects by fancy indexing: a new object over a new
\* buffer that holds copies of the selected bands
RgbCell ==
    /\ pc = "rgb"
    /\ IF SelOk(env["sr_dst"], RgbTargets)
       THEN LET pos == SelPositions(env["sr_dst"], RgbTargets)
            IN  /\ buf' = Append(buf, [k \in DOMAIN pos |->
                                          Values(env["sr_dst"])[pos[k]]])
                /\ obj' = Append(obj, DataArray(NewBuf,
                                    [k \in DOMAIN pos |-> k],
                                    [k \in DOMAIN pos |->
                                        obj[env["sr_dst"]].wl[pos[k]]],
                                    obj[env["sr_dst"]].dims,
                                    obj[env["sr_dst"]].space))
                /\ env' = [env EXCEPT !["rgb_da"] = NewObj]
                /\ pc' = "gamma"
       ELSE /\ pc' = "error"
            /\ UNCHANGED <<buf, obj, env>>
    /\ UNCHANGED <<band_target, wavelength_3d, l2_flags, geoloc, cldwater_mask, grid,
                   bright, gamma_locals, points_stream, events, data, rows,
                   csv_file, event_limit, last_event>>

(***************************************************************************)
(* gamma_adjust(rgb_da, bright) and the cell that calls it                 *)
(***************************************************************************)
\* ~(np.isnan(v) | (v < 0))
ValidCell(v) == ~(IsNaN(v) \/ FLt(v, Num(0)))

RECURSIVE FlatFrom(_, _)
\* the cells of the bands b.. of a cube, as one sequence
FlatFrom(cube, b) ==
    IF b > Len(cube) THEN <<>> ELSE cube[b] \o FlatFrom(cube, b + 1)

RECURSIVE SumValid(_)
\* the sum of a sequence of valid cells (none is NaN or negative)
SumValid(vs) ==
    IF Len(vs) = 0 THEN Num(0)
    ELSE LET rest == SumValid(Tail(vs))
         IN  IF IsInf(Head(vs)) \/ IsInf(rest) THEN PosInf
             ELSE Sat(Head(vs).v + rest.v)

\* np.nanmean(array[valid]): NaN (and a warning) when nothing is valid
MeanValid(cube) ==
    LET vs == SelectSeq(FlatFrom(cube, 1), ValidCell)
    IN  IF Len(vs) = 0 THEN NaN
        ELSE IF IsInf(SumValid(vs)) THEN PosInf
        ELSE Num(SumValid(vs).v \div Len(vs))

\* a variant of MathLog: np.log, which returns -inf or nan and never raises
MathLogLenient(x) ==
    IF IsNaN(x) THEN [raised |-> "none", val |-> NaN]
    ELSE IF IsInf(x) /\ x.v > 0 THEN [raised |-> "none", val |-> PosInf]
    ELSE IF IsInf(x) \/ x.v < 0 THEN [raised |-> "none", val |-> NaN]
    ELSE IF x.v = 0 THEN [raised |-> "none", val |-> NegInf]
    ELSE [raised |-> "none", val |-> Num(LnInt(x.v))]

\* math.log(x): raises ValueError unless x > 0; nan and inf pass through
MathLog(x) ==
    IF IsNaN(x) THEN [raised |-> "none", val |-> NaN]
    ELSE IF IsInf(x) /\ x.v > 0 THEN [raised |-> "none", val |-> PosInf]
    ELSE IF IsInf(x) \/ x.v <= 0 THEN [raised |-> "ValueError", val |-> NaN]
    ELSE [raised |-> "none", val |-> Num(LnInt(x.v))]

\* a variant of GammaOf: the quotient inverted
GammaOfInverted(b, mean) ==
    LET lb == MathLog(Num(b))
        lm == MathLog(mean)
    IN  IF lb.raised # "none" THEN [raised |-> lb.raised, val |-> NaN]
        ELSE IF lm.raised # "none" THEN [raised |-> lm.raised, val |-> NaN]
        ELSE IF lb.val = Num(0)
             THEN [raised |-> "ZeroDivisionError", val |-> NaN]
        ELSE [raised |-> "none", val |-> FDiv(lm.val, lb.val)]

\* gamma = math.log(bright) / math.log(mean_valid), a Python float division
GammaOf(b, mean) ==
    LET lb == MathLog(Num(b))
        lm == MathLog(mean)
    IN  IF lb.raised # "none" THEN [raised |-> lb.raised, val |-> NaN]
        ELSE IF lm.raised # "none" THEN [raised |-> lm.raised, val |-> NaN]
        ELSE IF lm.val = Num(0)
             THEN [raised |-> "ZeroDivisionError", val |-> NaN]
        ELSE [raised |-> "none", val |-> FDiv(lb.val, lm.val)]

\* scaled = full_like(array, nan); scaled[valid] = power(array[valid], gamma)
Scaled(cube, g) ==
    [b \in DOMAIN cube |->
        [c \in DOMAIN cube[b] |->
            IF ValidCell(cube[b][c]) THEN FPow(cube[b][c], g) ELSE NaN]]

\* a variant of Clipped: the clip left out
ClippedNot(scaled) == scaled

\* np.clip(scaled, 0, 1)
Clipped(scaled) ==
    [b \in DOMAIN scaled |->
        [c \in DOMAIN scaled[b] |-> FClip(scaled[b][c], 0, Scale)]]

\* the body of gamma_adjust on the values of rgb_da.data: the exception it
\* raises if any, its locals, and the array it assigns to rgb_da.data
gamma_adjust(cube, b) ==
    LET mean == MeanValid(cube)
        g    == GammaOf(b, mean)
    IN  [raised     |-> g.raised,
         mean_valid |-> mean,
         gamma      |-> g.val,
         out        |-> IF g.raised = "none"
                        THEN Clipped(Scaled(cube, g.val)) ELSE <<>>]

\* the bright argument of the notebook's call
NotebookBright == (3 * Scale) \div 10

NoCall == [raised |-> "none", mean_valid |-> NaN, gamma |-> NaN,
           called |-> FALSE, arg |-> None, ret |-> None, before |-> <<>>]

\* a variant of GammaCell: gamma_adjust as a pure function, which leaves
\* the object passed in alone and returns a new one
GammaCellPure ==
    /\ pc = "gamma"
    /\ LET o == env["rgb_da"]
           r == gamma_adjust(Values(o), bright)
       IN  /\ gamma_locals' =
                 [raised |-> r.raised, mean_valid |-> r.mean_valid,
                  gamma |-> r.gamma, called |-> TRUE, arg |-> o,
                  ret |-> IF r.raised = "none" THEN NewObj ELSE None,
                  before |-> Values(o)]
           /\ IF r.raised = "none"
              THEN /\ buf' = Append(buf, r.out)
                   /\ obj' = Append(obj, [obj[o] EXCEPT !.buf = NewBuf,
                                 !.bands = [k \in DOMAIN r.out |-> k]])
                   /\ env' = [env EXCEPT !["rgb_da"] = NewObj]
                   /\ pc' = "ui"
              ELSE /\ pc' = "error"
                   /\ UNCHANGED <<buf, obj, env>>
    /\ UNCHANGED <<band_target, wavelength_3d, l2_flags, geoloc, cldwater_mask,
                   grid, bright, points_stream, events, data, rows, csv_file,
                   event_limit, last_event>>

\* rgb_da = gamma_adjust(rgb_da, bright=0.3): on return the object passed in
\* holds a new buffer and is the object returned; an exception leaves
\* everything as it was
GammaCell ==
    /\ pc = "gamma"
    /\ LET o == env["rgb_da"]
           r == gamma_adjust(Values(o), bright)
       IN  /\ gamma_locals' =
                 [raised |-> r.raised, mean_valid |-> r.mean_valid,
                  gamma |-> r.gamma, called |-> TRUE, arg |-> o,
                  ret |-> IF r.raised = "none" THEN o ELSE None,
                  before |-> Values(o)]
           /\ IF r.raised = "none"
              THEN /\ buf' = Append(buf, r.out)
                   /\ obj' = [obj EXCEPT ![o] =
                                 [@ EXCEPT !.buf = NewBuf,
                                           !.bands = [k \in DOMAIN r.out |-> k]]]
                   /\ env' = [env EXCEPT !["rgb_da"] = o]
                   /\ pc' = "ui"
              ELSE /\ pc' = "error"
                   /\ UNCHANGED <<buf, obj, env>>
    /\ UNCHANGED <<band_target, wavelength_3d, l2_flags, geoloc, cldwater_mask, grid,
                   bright, points_stream, events, data, rows,
                   csv_file, event_limit, last_event>>

(***************************************************************************)
(* Cell: the point-draw stream, click_spectra and the linked plots         *)
(***************************************************************************)
\* in units of 1e-4 degree
x_start == -853879
y_start == 313446
POINT_LIMIT == 10

\* point-draw events the model follows before the export cell runs
MaxEvents == 1

\* the id the browser gives the non-position column of a new point
EmptyId == -1

first_point == <<[longitude |-> x_start, latitude |-> y_start, id |-> 0]>>

\* where the user may click or drag to
QueryPoints == {<<x_start, y_start>>, <<LonWest + 900, LatSouth + 600>>}

\* a variant of SelCell: x looked up among the latitudes, y among the
\* longitudes
SelCellAxesSwapped(g, x, y) ==
    IF NearestIdx(g.lon, y) = 0 \/ NearestIdx(g.lat, x) = 0 THEN 0
    ELSE CellOf(g, NearestIdx(g.lon, y), NearestIdx(g.lat, x))

\* the grid cell .sel(longitude=x, latitude=y, method="nearest") picks on
\* grid g, each axis looked up on its own; 0 when a lookup raises
SelCell(g, x, y) ==
    IF NearestIdx(g.lon, x) = 0 \/ NearestIdx(g.lat, y) = 0 THEN 0
    ELSE CellOf(g, NearestIdx(g.lon, x), NearestIdx(g.lat, y))

\* the spectrum of object o at cell c: one value per band
Spectrum(o, c) == [b \in 1..NBands(o) |-> Values(o)[b][c]]

\* a variant of click_spectra: the ids left as the browser sent them
click_spectra_ids_kept(pts) == pts

\* click_spectra(data): selects each point's spectrum for the plot and
\* writes points_stream.data["id"][i] = i
click_spectra(pts) == [i \in DOMAIN pts |-> [pts[i] EXCEPT !.id = i - 1]]

\* click_dmap is drawn: the callback runs once on the first point
UiCell ==
    /\ pc = "ui"
    /\ points_stream' = click_spectra(first_point)
    /\ events' = 0
    /\ last_event' = "none"
    /\ pc' = "export"
    /\ UNCHANGED <<band_target, wavelength_3d, l2_flags, geoloc, obj, buf, env,
                   cldwater_mask, grid, bright, gamma_locals, data, rows,
                   csv_file, event_limit>>

\* the stream after the browser's edit, as the callback leaves it
PointEvent(pts, kind) ==
    /\ pc = "export"
    /\ events < event_limit
    /\ points_stream' = click_spectra(pts)
    /\ events' = events + 1
    /\ last_event' = kind
    /\ UNCHANGED <<pc, band_target, wavelength_3d, l2_flags, geoloc, obj, buf, env,
                   cldwater_mask, grid, bright, gamma_locals, data, rows,
                   csv_file, event_limit>>

\* a variant of DropOldest: no limit on the points drawn
DropNothing(pts) == pts

\* num_objects=POINT_LIMIT: a point drawn past the limit drops the oldest
DropOldest(pts) == IF Len(pts) > POINT_LIMIT THEN Tail(pts) ELSE pts

AddPoint ==
    \E q \in QueryPoints :
        LET drawn == Append(points_stream,
                [longitude |-> q[1], latitude |-> q[2], id |-> EmptyId])
        IN  PointEvent(DropOldest(drawn),
                       IF Len(drawn) > POINT_LIMIT THEN "add_drop" ELSE "add")

DragPoint ==
    \E i \in DOMAIN points_stream, q \in QueryPoints :
        PointEvent([points_stream EXCEPT ![i] =
                       [@ EXCEPT !.longitude = q[1], !.latitude = q[2]]],
                   "drag")

RemovePoint ==
    \E i \in DOMAIN points_stream :
        PointEvent(SubSeq(points_stream, 1, i - 1)
                       \o SubSeq(points_stream, i + 1, Len(points_stream)),
                   "remove")

(***************************************************************************)
(* Cell: data = points_stream.data and the rows of the table               *)
(***************************************************************************)
StrCell(s) == [t |-> "str", x |-> s]
\* str(w) of a number w
NumStrCell(w) == [t |-> "numstr", x |-> w]
IntCell(n) == [t |-> "int", x |-> n]
CoordCell(n) == [t |-> "coord", x |-> n]
ReflCell(v) == [t |-> "refl", x |-> v]

\* ["id", "longitude", "latitude"] + [str(i) for i in wavelengths]
HeaderRow(wl) ==
    <<StrCell("id"), StrCell("longitude"), StrCell("latitude")>>
        \o [k \in DOMAIN wl |-> NumStrCell(wl[k])]

\* a variant of PointRow: the spectrum listed from the last band to the first
PointRowBandsReversed(o, g, pt) ==
    <<IntCell(pt.id), CoordCell(pt.longitude), CoordCell(pt.latitude)>>
        \o [b \in 1..NBands(o) |->
               ReflCell(Spectrum(o, SelCell(g, pt.longitude, pt.latitude))
                            [NBands(o) + 1 - b])]

\* [i, x, y] + list(spectra) for one point
PointRow(o, g, pt) ==
    <<IntCell(pt.id), CoordCell(pt.longitude), CoordCell(pt.latitude)>>
        \o [b \in 1..NBands(o) |->
               ReflCell(Spectrum(o, SelCell(g, pt.longitude, pt.latitude))[b])]

\* a variant of BuildRows: the points taken last to first
BuildRowsReversed(o, g, pts) ==
    <<HeaderRow(obj[o].wl)>>
        \o [i \in DOMAIN pts |-> PointRow(o, g, pts[Len(pts) + 1 - i])]

\* the header, then one row per point of pts in the order zip yields them
BuildRows(o, g, pts) ==
    <<HeaderRow(obj[o].wl)>> \o [i \in DOMAIN pts |-> PointRow(o, g, pts[i])]

ExportCell ==
    /\ pc = "export"
    /\ data' = points_stream
    /\ IF \A i \in DOMAIN points_stream :
            SelCell(grid, points_stream[i].longitude,
                    points_stream[i].latitude) # 0
       THEN /\ rows' = BuildRows(env["sr_dst"], grid, points_stream)
            /\ pc' = "csv"
       ELSE /\ rows' = <<HeaderRow(obj[env["sr_dst"]].wl)>>
            /\ pc' = "error"
    /\ UNCHANGED <<band_target, wavelength_3d, l2_flags, geoloc, obj, buf, env,
                   cldwater_mask, grid, bright, gamma_locals, points_stream,
                   events, csv_file, event_limit, last_event>>

(***************************************************************************)
(* Cell: csv.writer(f).writerows(rows)                                     *)
(***************************************************************************)
\* Text is a sequence of characters.
DigitChars == <<"0", "1", "2", "3", "4", "5", "6", "7", "8", "9">>

RECURSIVE NatChars(_)
\* str(n) of an int n >= 0
NatChars(n) ==
    IF n < 10 THEN <<DigitChars[n + 1]>>
    ELSE Append(NatChars(n \div 10), DigitChars[(n % 10) + 1])

\* str(n) of an int
IntChars(n) == IF n < 0 THEN <<"-">> \o NatChars(-n) ELSE NatChars(n)

RECURSIVE FracChars(_, _)
\* the digits after the point of f / (10 * unit), the shortest that give
\* the value back: no trailing zero, at least one digit
FracChars(f, unit) ==
    IF unit = 0 THEN <<>>
    ELSE IF f % unit = 0 THEN <<DigitChars[(f \div unit) + 1]>>
    ELSE <<DigitChars[(f \div unit) + 1]>> \o FracChars(f % unit, unit \div 10)

\* a variant of FixedChars: two decimal places kept
FixedCharsTwoPlaces(n) ==
    (IF n < 0 THEN <<"-">> ELSE <<>>)
        \o NatChars(Abs(n) \div Scale) \o <<".">>
        \o FracChars(((Abs(n) % Scale) \div 100) * 100, Scale \div 10)

\* str(x) of a float x of n units: sign, integer part, point, fraction
FixedChars(n) ==
    (IF n < 0 THEN <<"-">> ELSE <<>>)
        \o NatChars(Abs(n) \div Scale) \o <<".">>
        \o FracChars(Abs(n) % Scale, Scale \div 10)

\* str(v) of a float value: nan, inf and -inf by name
FloatChars(a) ==
    IF IsNaN(a) THEN <<"n", "a", "n">>
    ELSE IF IsInf(a)
         THEN (IF a.v < 0 THEN <<"-">> ELSE <<>>) \o <<"i", "n", "f">>
    ELSE FixedChars(a.v)

\* the characters of the header's names
StrChars(s) ==
    CASE s = "id" -> <<"i", "d">>
      [] s = "longitude" -> <<"l", "o", "n", "g", "i", "t", "u", "d", "e">>
      [] s = "latitude" -> <<"l", "a", "t", "i", "t", "u", "d", "e">>

\* what the writer makes of a field: a str as it is, anything else by str()
FieldText(cell) ==
    CASE cell.t = "str" -> StrChars(cell.x)
      [] cell.t = "numstr" -> NatChars(cell.x) \o <<".", "0">>
      [] cell.t = "int" -> IntChars(cell.x)
      [] cell.t = "coord" -> FixedChars(cell.x)
      [] cell.t = "refl" -> FloatChars(cell.x)

\* QUOTE_MINIMAL: a field is quoted when it holds the delimiter, the quote
\* character or a character of the line terminator
NeedsQuote(text) ==
    \E i \in DOMAIN text : text[i] \in {",", "\"", "\r", "\n"}

RECURSIVE DoubledQuotes(_)
DoubledQuotes(text) ==
    IF Len(text) = 0 THEN <<>>
    ELSE (IF Head(text) = "\"" THEN <<"\"", "\"">> ELSE <<Head(text)>>)
             \o DoubledQuotes(Tail(text))

Quoted(text) ==
    IF NeedsQuote(text)
    THEN <<"\"">> \o DoubledQuotes(text) \o <<"\"">>
    ELSE text

RECURSIVE JoinFields(_)
\* the fields of a row with the delimiter between them
JoinFields(row) ==
    IF Len(row) = 0 THEN <<>>
    ELSE IF Len(row) = 1 THEN Quoted(FieldText(row[1]))
    ELSE Quoted(FieldText(row[1])) \o <<",">> \o JoinFields(Tail(row))

\* writerow(row): the row's line, ended by the line terminator
writerow(row) == JoinFields(row) \o <<"\r", "\n">>

\* writerows(rows): one line per row, in order
writerows(rs) == [i \in DOMAIN rs |-> writerow(rs[i])]

CsvCell ==
    /\ pc = "csv"
    /\ csv_file' = writerows(rows)
    /\ pc' = "cire"
    /\ UNCHANGED <<band_target, wavelength_3d, l2_flags, geoloc, obj, buf, env,
                   cldwater_mask, grid, bright, gamma_locals, points_stream,
                   events, data, rows, event_limit, last_event>>

(***************************************************************************)
(* Cells: the vegetation indices                                           *)
(***************************************************************************)
One == Num(Scale)

\* a variant of Cire: the quotient inverted
CireSwapped(b800, b705) ==
    [c \in DOMAIN b800 |-> FSub(FDiv(b705[c], b800[c]), One)]

\* (sr_800 / sr_705) - 1, cell by cell
Cire(b800, b705) ==
    [c \in DOMAIN b800 |-> FSub(FDiv(b800[c], b705[c]), One)]

\* ((1 / sr_495) - (1 / sr_705)) * sr_800, cell by cell
Car(b495, b705, b800) ==
    [c \in DOMAIN b800 |->
        FMul(FSub(FDiv(One, b495[c]), FDiv(One, b705[c])), b800[c])]

CireCell ==
    /\ pc = "cire"
    /\ IF SelOk(env["sr_dst"], <<800, 705>>)
       THEN LET s800 == SelScalar(env["sr_dst"], 800)
                s705 == SelScalar(env["sr_dst"], 705)
            IN  /\ buf' = Append(buf,
                      <<Cire(buf[s800.buf][s800.bands[1]],
                             buf[s705.buf][s705.bands[1]])>>)
                /\ obj' = obj \o <<s800, s705,
                      DataArray(NewBuf, <<1>>, <<>>, "yx", s800.space)>>
                /\ env' = [env EXCEPT !["sr_800"] = NewObj,
                                      !["sr_705"] = NewObj + 1,
                                      !["cire"] = NewObj + 2]
                /\ pc' = "car"
       ELSE /\ pc' = "error"
            /\ UNCHANGED <<buf, obj, env>>
    /\ UNCHANGED <<band_target, wavelength_3d, l2_flags, geoloc, cldwater_mask, grid,
                   bright, gamma_locals, points_stream, events, data, rows,
                   csv_file, event_limit, last_event>>

CarCell ==
    /\ pc = "car"
    /\ IF SelOk(env["sr_dst"], <<495>>)
       THEN LET s495 == SelScalar(env["sr_dst"], 495)
            IN  /\ buf' = Append(buf,
                      <<Car(buf[s495.buf][s495.bands[1]],
                            Values(env["sr_705"])[1],
                            Values(env["sr_800"])[1])>>)
                /\ obj' = obj \o <<s495,
                      DataArray(NewBuf, <<1>>, <<>>, "yx", s495.space)>>
                /\ env' = [env EXCEPT !["sr_495"] = NewObj,
                                      !["car"] = NewObj + 1]
                /\ pc' = "done"
       ELSE /\ pc' = "error"
            /\ UNCHANGED <<buf, obj, env>>
    /\ UNCHANGED <<band_target, wavelength_3d, l2_flags, geoloc, cldwater_mask, grid,
                   bright, gamma_locals, points_stream, events, data, rows,
                   csv_file, event_limit, last_event>>

(***************************************************************************)
(* The notebook run top to bottom on one granule                           *)
(***************************************************************************)
\* the wavelength of the notebook's first band selection (nm)
NotebookTarget == 860

NoGrid == [lon |-> <<>>, lat |-> <<>>, dx |-> 0, dy |-> 0]

\* the names bound before the first modelled cell: ds["rhos"] only
StartEnv == [n \in Names |-> IF n = "ds_rhos" THEN 1 ELSE None]

Init ==
    /\ pc = "sel860"
    /\ band_target = NotebookTarget
    /\ wavelength_3d = SceneWavelengths
    /\ l2_flags \in [1..Len(GeoRegular) -> FlagSets]
    /\ geoloc \in GeoLayouts
    /\ buf = << [b \in DOMAIN SceneWavelengths |->
                    [p \in 1..Len(GeoRegular) |-> SceneRho(b, p)]] >>
    /\ obj = << DataArray(1, [b \in DOMAIN SceneWavelengths |-> b],
                          SceneWavelengths, "yxb", "swath") >>
    /\ env = StartEnv
    /\ cldwater_mask = <<>>
    /\ grid = NoGrid
    /\ bright = NotebookBright
    /\ gamma_locals = NoCall
    /\ points_stream = <<>>
    /\ events = 0
    /\ data = <<>>
    /\ rows = <<>>
    /\ csv_file = <<>>
    /\ event_limit = MaxEvents
    /\ last_event = "none"

Next ==
    \/ SelBandCell
    \/ MaskCell
    \/ TransposeCell
    \/ ReprojectCell
    \/ RgbCell
    \/ GammaCell
    \/ UiCell
    \/ AddPoint
    \/ DragPoint
    \/ RemovePoint
    \/ ExportCell
    \/ CsvCell
    \/ CireCell
    \/ CarCell

Spec == Init /\ [][Next]_vars

(***************************************************************************)
(* Band selection on any wavelength coordinate and target                  *)
(***************************************************************************)
\* labels a wavelength coordinate may hold, and targets asked for (nm)
BandLabels == {495, 700, 710, 800, 860}
BandTargets == {470, 705, 755, 860}

\* bands of the longest coordinate tried
MaxBands == 3

\* ds["rhos"] with coordinate W over one swath pixel: band b holds b
InitBand ==
    /\ pc = "sel860"
    /\ band_target \in BandTargets
    /\ wavelength_3d \in SeqsUpTo(BandLabels, MaxBands)
    /\ l2_flags = <<{"LAND"}>>
    /\ geoloc = <<GeoRegular[1]>>
    /\ buf = << [b \in DOMAIN wavelength_3d |-> <<Num(b)>>] >>
    /\ obj = << DataArray(1, [b \in DOMAIN wavelength_3d |-> b],
                          wavelength_3d, "yxb", "swath") >>
    /\ env = StartEnv
    /\ cldwater_mask = <<>>
    /\ grid = NoGrid
    /\ bright = NotebookBright
    /\ gamma_locals = NoCall
    /\ points_stream = <<>>
    /\ events = 0
    /\ data = <<>>
    /\ rows = <<>>
    /\ csv_file = <<>>
    /\ event_limit = MaxEvents
    /\ last_event = "none"

NextBand == SelBandCell

SpecBand == InitBand /\ [][NextBand]_vars

(***************************************************************************)
(* gamma_adjust on any triplet and bright                                  *)
(***************************************************************************)
\* cells of each band of the triplet
GammaCells == 2

\* the values a cell of the triplet may hold, in an order used only to
\* enumerate one triplet per multiset of values (gamma_adjust treats every
\* cell alike, wherever it is)
GammaValues ==
    <<NaN, Num(-(Scale \div 10)), Num(0), Num(Scale \div 10),
      Num(Scale \div 2), Num(Scale), Num((12 * Scale) \div 10)>>

\* the bright arguments tried: 0.3, 0.5, 1.0, 1.5, 0 and -0.1
Brights ==
    {(3 * Scale) \div 10, Scale \div 2, Scale, (15 * Scale) \div 10, 0,
     -(Scale \div 10)}

RECURSIVE SortedIdx(_, _)
\* the non-decreasing sequences of length n over 1..m
SortedIdx(n, m) ==
    IF n = 0 THEN {<<>>}
    ELSE UNION {{Append(q, k) :
                    k \in (IF Len(q) = 0 THEN 1 ELSE q[Len(q)])..m} :
                q \in SortedIdx(n - 1, m)}

\* the triplet whose cells, band after band, hold the values numbered ix
TripletOf(ix) ==
    [b \in 1..3 |->
        [c \in 1..GammaCells |-> GammaValues[ix[(b - 1) * GammaCells + c]]]]

InitGamma ==
    /\ pc = "gamma"
    /\ band_target = NotebookTarget
    /\ wavelength_3d = SceneWavelengths
    /\ l2_flags = <<>>
    /\ geoloc = <<>>
    /\ \E ix \in SortedIdx(3 * GammaCells, Len(GammaValues)) :
           buf = <<TripletOf(ix)>>
    /\ obj = << DataArray(1, <<1, 2, 3>>, <<705, 560, 495>>, "byx", "grid") >>
    /\ env = [n \in Names |-> IF n = "rgb_da" THEN 1 ELSE None]
    /\ cldwater_mask = <<>>
    /\ grid = NoGrid
    /\ bright \in Brights
    /\ gamma_locals = NoCall
    /\ points_stream = <<>>
    /\ events = 0
    /\ data = <<>>
    /\ rows = <<>>
    /\ csv_file = <<>>
    /\ event_limit = MaxEvents
    /\ last_event = "none"

NextGamma == GammaCell

SpecGamma == InitGamma /\ [][NextGamma]_vars

(***************************************************************************)
(* The index cells on any regridded cube                                   *)
(***************************************************************************)
\* grid cells of the cube
IndexCells == 2

\* wavelength coordinates tried: exact, decreasing, and inexact labels
IndexCoords == {<<495, 705, 800>>, <<800, 705, 495>>, <<500, 700, 790>>}

\* the reflectances a cell may hold near 495, 705 and 800 nm
Index495 == {NaN, Num(0), Num(Scale \div 10)}
Index705 == {NaN, Num(0), Num((2 * Scale) \div 10)}
Index800 == {NaN, Num(0), Num((3 * Scale) \div 10), Num((4 * Scale) \div 10)}
IndexTriples == Index495 \X Index705 \X Index800

\* the position in a triple of the band labelled w
RoleOf(w) == IF w < 600 THEN 1 ELSE IF w < 750 THEN 2 ELSE 3

InitIndex ==
    /\ pc = "cire"
    /\ band_target = NotebookTarget
    /\ wavelength_3d \in IndexCoords
    /\ l2_flags = <<>>
    /\ geoloc = <<>>
    /\ \E cells \in [1..IndexCells -> IndexTriples] :
           buf = << [b \in 1..3 |->
                       [c \in 1..IndexCells |->
                           cells[c][RoleOf(wavelength_3d[b])]]] >>
    /\ obj = << DataArray(1, <<1, 2, 3>>, wavelength_3d, "byx", "grid") >>
    /\ env = [n \in Names |-> IF n = "sr_dst" THEN 1 ELSE None]
    /\ cldwater_mask = <<>>
    /\ grid = NoGrid
    /\ bright = NotebookBright
    /\ gamma_locals = NoCall
    /\ points_stream = <<>>
    /\ events = 0
    /\ data = <<>>
    /\ rows = <<>>
    /\ csv_file = <<>>
    /\ event_limit = MaxEvents
    /\ last_event = "none"

NextIndex == CireCell \/ CarCell

SpecIndex == InitIndex /\ [][NextIndex]_vars

(***************************************************************************)
(* A point-drawing session on one regridded cube                           *)
(***************************************************************************)
\* point-draw events of the longest session tried
MaxPointEvents == 10

\* the flags of the session's granule: the last pixel under cloud
SessionFlags ==
    [p \in 1..Len(GeoRegular) |->
        IF p = Len(GeoRegular) THEN {"LAND", "CLDICE"} ELSE {"LAND"}]

\* the state the linked plots are first shown in: sr_dst regridded from the
\* masked scene, the first point drawn and numbered
InitPoints ==
    /\ pc = "export"
    /\ band_target = NotebookTarget
    /\ wavelength_3d = SceneWavelengths
    /\ l2_flags = SessionFlags
    /\ geoloc = GeoRegular
    /\ buf = << Reproject(Where([b \in DOMAIN SceneWavelengths |->
                                    [p \in 1..Len(GeoRegular) |->
                                        SceneRho(b, p)]],
                                BuildMask(SessionFlags)),
                          GeoRegular, DstGrid(GeoRegular)) >>
    /\ obj = << DataArray(1, [b \in DOMAIN SceneWavelengths |-> b],
                          SceneWavelengths, "byx", "grid") >>
    /\ env = [n \in Names |-> IF n = "sr_dst" THEN 1 ELSE None]
    /\ cldwater_mask = BuildMask(SessionFlags)
    /\ grid = DstGrid(GeoRegular)
    /\ bright = NotebookBright
    /\ gamma_locals = NoCall
    /\ points_stream = click_spectra(first_point)
    /\ events = 0
    /\ data = <<>>
    /\ rows = <<>>
    /\ csv_file = <<>>
    /\ event_limit = MaxPointEvents
    /\ last_event = "none"

NextPoints == AddPoint \/ DragPoint \/ RemovePoint \/ ExportCell

SpecPoints == InitPoints /\ [][NextPoints]_vars

(***************************************************************************)
(* Properties                                                              *)
(***************************************************************************)
\* the cells that have run, read off the names they bind
Masked == env["rhos"] # None
Regridded == env["sr_dst"] # None /\ env["sr_src"] # None
GammaReturned == gamma_locals.called /\ gamma_locals.raised = "none"
Exported == pc \in {"csv", "cire", "car", "done"} /\ Len(rows) > 0

\* tolerance of the fixed-point arithmetic: 0.01
Tol == Scale \div 100

Near(a, n) == IsNum(a) /\ Abs(a.v - n) <= Tol

\* C1: the validity mask is true at a pixel exactly when an include flag
\* (LAND) is active there and no exclude flag (CLDICE) is; the masked cube
\* holds the original reflectance in every band where the mask is true and
\* NaN where it is false.
C1_Include == {"LAND"}
C1_Exclude == {"CLDICE"}
C1_QualityMask ==
    Masked =>
        /\ DOMAIN cldwater_mask = DOMAIN l2_flags
        /\ \A p \in DOMAIN l2_flags :
               cldwater_mask[p] <=> /\ l2_flags[p] \cap C1_Include # {}
                                    /\ l2_flags[p] \cap C1_Exclude = {}
        /\ NBands(env["rhos"]) = NBands(env["ds_rhos"])
        /\ \A b \in 1..NBands(env["ds_rhos"]), p \in DOMAIN l2_flags :
               Values(env["rhos"])[b][p] =
                   IF cldwater_mask[p] THEN Values(env["ds_rhos"])[b][p]
                                       ELSE NaN

C1_Witness ==
    /\ Masked
    /\ \E p, q, r \in DOMAIN l2_flags :
           /\ cldwater_mask[p]
           /\ l2_flags[q] = {"LAND", "CLDICE"} /\ ~cldwater_mask[q]
           /\ l2_flags[r] = {} /\ ~cldwater_mask[r]
           /\ Values(env["rhos"])[1][p] = SceneRho(1, p)
           /\ Values(env["rhos"])[1][q] = NaN

C3_OutputRange ==
    GammaReturned =>
        \A b \in DOMAIN gamma_locals.before :
            \A c \in DOMAIN gamma_locals.before[b] :
                LET v   == gamma_locals.before[b][c]
                    out == Values(gamma_locals.arg)[b][c]
                IN  IF IsNaN(v) \/ (~IsNaN(v) /\ SignOf(v) < 0)
                    THEN IsNaN(out)
                    ELSE IsNum(out) /\ 0 <= out.v /\ out.v <= Scale

C3_Witness ==
    /\ GammaReturned
    /\ \E b1, b2, b3 \in DOMAIN gamma_locals.before :
       \E c1 \in DOMAIN gamma_locals.before[b1],
          c2 \in DOMAIN gamma_locals.before[b2],
          c3 \in DOMAIN gamma_locals.before[b3] :
           /\ IsNaN(gamma_locals.before[b1][c1])
           /\ IsNum(gamma_locals.before[b2][c2])
           /\ gamma_locals.before[b2][c2].v < 0
           /\ IsNum(gamma_locals.before[b3][c3])
           /\ gamma_locals.before[b3][c3].v > Scale
           /\ Values(gamma_locals.arg)[b3][c3] = Num(Scale)
           /\ IsNum(gamma_locals.gamma) /\ gamma_locals.gamma.v > 0

\* C4: gamma_adjust computes one exponent from the arithmetic mean of the
\* valid cells of all three bands, with mean_valid ** gamma = bright, and
\* raises every valid cell to it; a uniform 0.1 triplet with bright 0.3
\* comes out 0.3 everywhere.
RECURSIVE C4_Sum(_)
C4_Sum(vs) == IF Len(vs) = 0 THEN 0 ELSE Head(vs).v + C4_Sum(Tail(vs))

C4_IsValid(v) == IsNum(v) /\ v.v >= 0

C4_ValidCells ==
    SelectSeq(FlatFrom(gamma_locals.before, 1), C4_IsValid)

C4_GammaFromMean ==
    (GammaReturned /\ Len(C4_ValidCells) > 0) =>
        LET mean == gamma_locals.mean_valid
            g    == gamma_locals.gamma
            n    == Len(C4_ValidCells)
        IN  /\ IsNum(mean) /\ IsNum(g)
            /\ n * mean.v <= C4_Sum(C4_ValidCells)
            /\ C4_Sum(C4_ValidCells) < n * (mean.v + 1)
            /\ Near(FPow(mean, g), bright)
            /\ \A b \in DOMAIN gamma_locals.before :
                   \A c \in DOMAIN gamma_locals.before[b] :
                       C4_IsValid(gamma_locals.before[b][c]) =>
                           Values(gamma_locals.arg)[b][c] =
                               FClip(FPow(gamma_locals.before[b][c], g),
                                     0, Scale)
            /\ (/\ bright = (3 * Scale) \div 10
                /\ \A i \in DOMAIN C4_ValidCells :
                       C4_ValidCells[i] = Num(Scale \div 10)
                /\ n = Len(FlatFrom(gamma_locals.before, 1)))
               => \A b \in DOMAIN gamma_locals.before :
                      \A c \in DOMAIN gamma_locals.before[b] :
                          Near(Values(gamma_locals.arg)[b][c],
                               (3 * Scale) \div 10)

C4_Witness ==
    /\ GammaReturned
    /\ bright = (3 * Scale) \div 10
    /\ \A b \in DOMAIN gamma_locals.before :
           \A c \in DOMAIN gamma_locals.before[b] :
               /\ gamma_locals.before[b][c] = Num(Scale \div 10)
               /\ Near(Values(gamma_locals.arg)[b][c], (3 * Scale) \div 10)
    /\ Near(gamma_locals.gamma, (5229 * Scale) \div 10000)

\* C5: the call of gamma_adjust on the RGB triplet leaves the regridded
\* cube as it was: sr_dst names the same object, holding the same values,
\* after the call as before it.
C5_SrDstUntouched ==
    [][pc = "gamma" =>
          /\ env'["sr_dst"] = env["sr_dst"]
          /\ Values(env["sr_dst"])' = Values(env["sr_dst"])]_vars

C5_Witness ==
    /\ GammaReturned
    /\ Regridded
    /\ gamma_locals.arg = env["rgb_da"]
    /\ \E b \in DOMAIN gamma_locals.before :
           \E c \in DOMAIN gamma_locals.before[b] :
               /\ IsNum(gamma_locals.before[b][c])
               /\ Values(env["rgb_da"])[b][c] # gamma_locals.before[b][c]
               /\ \E k \in 1..NBands(env["sr_dst"]) :
                      Values(env["sr_dst"])[k][c] = gamma_locals.before[b][c]

\* the position in W of a label at minimal distance from w
C6_Band(W, w) ==
    CHOOSE i \in DOMAIN W : \A j \in DOMAIN W : Abs(W[i] - w) <= Abs(W[j] - w)

\* band(w) of the regridded cube
C6_BandOf(w) == Values(env["sr_dst"])[C6_Band(obj[env["sr_dst"]].wl, w)]

\* the cells where the operands of an index are numbers and no divisor is 0
C6_CireDefined(c) ==
    /\ IsNum(C6_BandOf(800)[c]) /\ IsNum(C6_BandOf(705)[c])
    /\ C6_BandOf(705)[c].v # 0
C6_CarDefined(c) ==
    /\ C6_CireDefined(c)
    /\ IsNum(C6_BandOf(495)[c]) /\ C6_BandOf(495)[c].v # 0

\* (band(800) / band(705)) - 1 on fixed-point numbers
C6_CireAt(c) ==
    Num(QuoT(C6_BandOf(800)[c].v * Scale, C6_BandOf(705)[c].v) - Scale)

\* ((1 / band(495)) - (1 / band(705))) * band(800) on fixed-point numbers
C6_CarAt(c) ==
    Num(QuoT((QuoT(Scale * Scale, C6_BandOf(495)[c].v)
               - QuoT(Scale * Scale, C6_BandOf(705)[c].v))
             * C6_BandOf(800)[c].v, Scale))

\* C6: at every grid cell CIRE is (band(800) / band(705)) - 1 and CAR is
\* ((1 / band(495)) - (1 / band(705))) * band(800), band(w) being the band
\* of the regridded cube nearest to w nm; 0.4 over 0.2 gives CIRE 1.0, and
\* 0.1, 0.2, 0.3 give CAR 1.5.
C6_IndexFormulas ==
    /\ env["cire"] # None =>
          \A c \in Cells(env["sr_dst"]) :
              /\ C6_CireDefined(c) => Values(env["cire"])[1][c] = C6_CireAt(c)
              /\ (/\ C6_BandOf(800)[c] = Num((4 * Scale) \div 10)
                  /\ C6_BandOf(705)[c] = Num((2 * Scale) \div 10))
                 => Values(env["cire"])[1][c] = Num(Scale)
    /\ env["car"] # None =>
          \A c \in Cells(env["sr_dst"]) :
              /\ C6_CarDefined(c) => Values(env["car"])[1][c] = C6_CarAt(c)
              /\ (/\ C6_BandOf(495)[c] = Num(Scale \div 10)
                  /\ C6_BandOf(705)[c] = Num((2 * Scale) \div 10)
                  /\ C6_BandOf(800)[c] = Num((3 * Scale) \div 10))
                 => Values(env["car"])[1][c] = Num((15 * Scale) \div 10)

C6_Witness ==
    /\ env["car"] # None
    /\ obj[env["sr_dst"]].wl = <<500, 700, 790>>
    /\ \E c, d \in Cells(env["sr_dst"]) :
           /\ C6_BandOf(800)[c] = Num((4 * Scale) \div 10)
           /\ C6_BandOf(705)[c] = Num((2 * Scale) \div 10)
           /\ Values(env["cire"])[1][c] = Num(Scale)
           /\ C6_BandOf(495)[d] = Num(Scale \div 10)
           /\ C6_BandOf(705)[d] = Num((2 * Scale) \div 10)
           /\ C6_BandOf(800)[d] = Num((3 * Scale) \div 10)
           /\ Values(env["car"])[1][d] = Num((15 * Scale) \div 10)

\* C7: the index cells never fail: a cell whose divisor band is 0 or one
\* of whose bands is NaN holds infinity or NaN, in that cell only, and
\* every other cell holds the value of its formula.
C7_EdgeCases ==
    /\ pc # "error"
    /\ env["cire"] # None =>
          \A c \in Cells(env["sr_dst"]) :
              IF C6_CireDefined(c)
              THEN Values(env["cire"])[1][c] = C6_CireAt(c)
              ELSE ~IsNum(Values(env["cire"])[1][c])
    /\ env["car"] # None =>
          \A c \in Cells(env["sr_dst"]) :
              IF C6_CarDefined(c)
              THEN Values(env["car"])[1][c] = C6_CarAt(c)
              ELSE ~IsNum(Values(env["car"])[1][c])

C7_Witness ==
    /\ pc = "done"
    /\ \E c, d \in Cells(env["sr_dst"]) :
           /\ C6_BandOf(705)[c] = Num(0)
           /\ IsNum(C6_BandOf(800)[c]) /\ C6_BandOf(800)[c].v > 0
           /\ Values(env["cire"])[1][c] = PosInf
           /\ IsNaN(C6_BandOf(495)[c])
           /\ IsNaN(Values(env["car"])[1][c])
           /\ C6_CarDefined(d)
           /\ IsNum(Values(env["cire"])[1][d])
           /\ IsNum(Values(env["car"])[1][d])

\* the band position the first selection picked, and its target
C8_Picked == obj[env["rhos_860"]].bands[1]
C8_Dist(i) == Abs(wavelength_3d[i] - band_target)
C8_Minimal(i) == \A j \in DOMAIN wavelength_3d : C8_Dist(i) <= C8_Dist(j)

\* C8 as stated: the selected band minimises |w - t| and, of two elements
\* that tie, is the first in coordinate order.
C8_FirstOnTie ==
    pc = "mask" =>
        /\ C8_Minimal(C8_Picked)
        /\ \A j \in DOMAIN wavelength_3d : C8_Minimal(j) => C8_Picked <= j

\* C8, amended: on a non-empty strictly increasing or strictly decreasing
\* wavelength coordinate the selected band minimises |w - t| and, of two
\* elements that tie, is the one of larger wavelength; on any other
\* coordinate the lookup raises and selects nothing.
C8_LargerOnTie ==
    /\ pc # "sel860" =>
          (pc = "mask" <=>
              /\ Len(wavelength_3d) > 0
              /\ \/ \A i \in 1..(Len(wavelength_3d) - 1) :
                        wavelength_3d[i] < wavelength_3d[i + 1]
                 \/ \A i \in 1..(Len(wavelength_3d) - 1) :
                        wavelength_3d[i] > wavelength_3d[i + 1])
    /\ pc = "mask" =>
          /\ C8_Minimal(C8_Picked)
          /\ \A j \in DOMAIN wavelength_3d :
                 C8_Minimal(j) => wavelength_3d[j] <= wavelength_3d[C8_Picked]
          /\ obj[env["rhos_860"]].wl = <<wavelength_3d[C8_Picked]>>
          /\ Values(env["rhos_860"])[1] = Values(env["ds_rhos"])[C8_Picked]

C8_Witness ==
    /\ pc = "mask"
    /\ \E j \in DOMAIN wavelength_3d :
           /\ j < C8_Picked
           /\ C8_Minimal(j)
           /\ wavelength_3d[j] < wavelength_3d[C8_Picked]

\* C9: the export holds exactly one record per point, in the order of the
\* points, each record carrying the id, longitude and latitude of the point
\* at its position.
C9_OrderPreserved ==
    Exported =>
        /\ data = points_stream
        /\ Len(rows) = Len(data) + 1
        /\ \A i \in DOMAIN data :
               /\ rows[i + 1][1] = IntCell(data[i].id)
               /\ rows[i + 1][2] = CoordCell(data[i].longitude)
               /\ rows[i + 1][3] = CoordCell(data[i].latitude)

C9_Witness ==
    /\ Exported
    /\ Len(data) >= 2
    /\ data[1].longitude # data[2].longitude
    /\ rows[2][2] = CoordCell(data[1].longitude)
    /\ rows[3][2] = CoordCell(data[2].longitude)

\* C10: the table starts with the header id, longitude, latitude and the B
\* wavelengths, followed by one row per point; every row has 3 + B entries
\* and its k-th reflectance is the value, at one cell, of the band whose
\* wavelength is the k-th of the header.
C10_TableShape ==
    Exported =>
        LET W == obj[env["sr_dst"]].wl
        IN  /\ Len(rows) = Len(data) + 1
            /\ Len(rows[1]) = 3 + Len(W)
            /\ rows[1][1] = StrCell("id")
            /\ rows[1][2] = StrCell("longitude")
            /\ rows[1][3] = StrCell("latitude")
            /\ \A k \in DOMAIN W : rows[1][3 + k] = NumStrCell(W[k])
            /\ \A i \in 2..Len(rows) :
                   /\ Len(rows[i]) = 3 + Len(W)
                   /\ \E c \in Cells(env["sr_dst"]) :
                          \A k \in DOMAIN W :
                              rows[i][3 + k] =
                                  ReflCell(Values(env["sr_dst"])[k][c])

C10_Witness ==
    /\ Exported
    /\ Len(rows) >= 3
    /\ Len(obj[env["sr_dst"]].wl) = Len(SceneWavelengths)
    /\ \A k \in DOMAIN SceneWavelengths :
           /\ IsNum(rows[2][3 + k].x)
           /\ rows[1][3 + k] = NumStrCell(SceneWavelengths[k])
    /\ rows[2][4].x # rows[2][5].x

\* reading the table back: the digit a character stands for
C11_Digit(ch) == CHOOSE d \in 0..9 : DigitChars[d + 1] = ch

RECURSIVE C11_Nat(_)
\* int(text) of a run of digits
C11_Nat(text) ==
    IF Len(text) = 0 THEN 0
    ELSE 10 * C11_Nat(SubSeq(text, 1, Len(text) - 1))
             + C11_Digit(text[Len(text)])

C11_Int(text) ==
    IF Head(text) = "-" THEN -C11_Nat(Tail(text)) ELSE C11_Nat(text)

RECURSIVE C11_Frac(_, _)
\* the units the digits after the point are worth
C11_Frac(text, unit) ==
    IF Len(text) = 0 THEN 0
    ELSE C11_Digit(Head(text)) * unit + C11_Frac(Tail(text), unit \div 10)

\* the first position of ch in text, or one past its end
C11_Find(text, ch) ==
    IF \E i \in DOMAIN text : text[i] = ch
    THEN CHOOSE i \in DOMAIN text :
             text[i] = ch /\ \A j \in 1..(i - 1) : text[j] # ch
    ELSE Len(text) + 1

\* float(text) of an unsigned decimal, in units
C11_Units(text) ==
    C11_Nat(SubSeq(text, 1, C11_Find(text, ".") - 1)) * Scale
        + C11_Frac(SubSeq(text, C11_Find(text, ".") + 1, Len(text)),
                   Scale \div 10)

\* float(text) of a coordinate, in units
C11_Coord(text) ==
    IF Head(text) = "-" THEN -C11_Units(Tail(text)) ELSE C11_Units(text)

\* float(text) of a reflectance
C11_Float(text) ==
    IF text = <<"n", "a", "n">> THEN NaN
    ELSE IF text = <<"i", "n", "f">> THEN PosInf
    ELSE IF text = <<"-", "i", "n", "f">> THEN NegInf
    ELSE Num(C11_Coord(text))

RECURSIVE C11_Split(_)
\* the fields of a line without quoted fields
C11_Split(text) ==
    IF C11_Find(text, ",") > Len(text) THEN <<text>>
    ELSE <<SubSeq(text, 1, C11_Find(text, ",") - 1)>>
             \o C11_Split(SubSeq(text, C11_Find(text, ",") + 1, Len(text)))

\* the fields of a line of the file, its terminator taken off
C11_Fields(line) == C11_Split(SubSeq(line, 1, Len(line) - 2))

\* the (id, lon, lat, spectrum) tuple a line of the file parses to
C11_Parsed(line) ==
    LET f == C11_Fields(line)
    IN  [id        |-> C11_Int(f[1]),
         longitude |-> C11_Coord(f[2]),
         latitude  |-> C11_Coord(f[3]),
         spectrum  |-> [k \in 1..(Len(f) - 3) |-> C11_Float(f[3 + k])]]

\* the (id, lon, lat, spectrum) tuple sampled for point i of data
C11_Sampled(i) ==
    [id        |-> data[i].id,
     longitude |-> data[i].longitude,
     latitude  |-> data[i].latitude,
     spectrum  |-> Spectrum(env["sr_dst"],
                            SelCell(grid, data[i].longitude,
                                    data[i].latitude))]

\* C11: the table written holds one line per sampled record after its
\* header, every line ends with the line terminator, and parsing the lines
\* gives back the (id, lon, lat, spectrum) tuples sampled, in their order.
C11_RoundTrip ==
    csv_file # <<>> =>
        /\ Len(csv_file) = Len(data) + 1
        /\ \A i \in DOMAIN csv_file :
               SubSeq(csv_file[i], Len(csv_file[i]) - 1, Len(csv_file[i]))
                   = <<"\r", "\n">>
        /\ \A i \in DOMAIN data : C11_Parsed(csv_file[i + 1]) = C11_Sampled(i)

C11_Witness ==
    /\ Len(csv_file) >= 3
    /\ \E i, j \in DOMAIN data :
           /\ data[i].longitude # data[j].longitude
           /\ \E k \in DOMAIN C11_Sampled(i).spectrum :
                  IsNaN(C11_Parsed(csv_file[i + 1]).spectrum[k])
           /\ \A k \in DOMAIN C11_Sampled(j).spectrum :
                  IsNum(C11_Parsed(csv_file[j + 1]).spectrum[k])
           /\ C11_Parsed(csv_file[j + 1]).longitude < 0
           /\ C11_Parsed(csv_file[j + 1]).longitude % 10 # 0

\* C12: from the first point on, whatever points are added, dragged or
\* removed, the stream holds at most POINT_LIMIT points; a point drawn at
\* the limit takes the place of the oldest; the export takes every point
\* it is given, so it never builds more than POINT_LIMIT rows of points.
C12_PointLimit ==
    /\ Len(points_stream) <= POINT_LIMIT
    /\ last_event = "add_drop" => Len(points_stream) = POINT_LIMIT
    /\ pc # "export" =>
          /\ Len(data) <= POINT_LIMIT
          /\ Len(rows) = Len(data) + 1

C12_Witness ==
    /\ pc # "export"
    /\ last_event = "add_drop"
    /\ Len(data) = POINT_LIMIT
    /\ Len(rows) = POINT_LIMIT + 1

\* the valid cells of the triplet the call was given, and whether their
\* mean is 0 or 1
C13_ValidBefore == SelectSeq(FlatFrom(gamma_locals.before, 1), C4_IsValid)
C13_MeanIs(n) ==
    /\ Len(C13_ValidBefore) > 0
    /\ \A i \in DOMAIN C13_ValidBefore : IsNum(C13_ValidBefore[i])
    /\ C4_Sum(C13_ValidBefore) = n * Len(C13_ValidBefore)

\* the call failed and left the triplet as it was
C13_NoOutput ==
    /\ pc = "error"
    /\ gamma_locals.ret = None
    /\ Values(gamma_locals.arg) = gamma_locals.before

\* C13 as stated: gamma_adjust fails with DegenerateInputError, and
\* produces no normalized output, whenever the mean of the valid cells is
\* 0, 1 or negative.
C13_DegenerateInputError ==
    (/\ gamma_locals.called
     /\ \/ C13_MeanIs(0)
        \/ C13_MeanIs(Scale)
        \/ (IsNum(gamma_locals.mean_valid) /\ gamma_locals.mean_valid.v < 0))
    => /\ gamma_locals.raised = "DegenerateInputError"
       /\ C13_NoOutput

\* C13, amended: gamma_adjust fails, and produces no normalized output,
\* whenever the mean of the valid cells is 0 or 1: with ValueError when the
\* mean is 0 or bright is not positive, with ZeroDivisionError when the
\* mean is 1 and bright is positive; the mean of the valid cells is never
\* negative.
C13_FailsOnMeanZeroOrOne ==
    gamma_locals.called =>
        /\ ~(IsNum(gamma_locals.mean_valid) /\ gamma_locals.mean_valid.v < 0)
        /\ C13_MeanIs(0) =>
               /\ gamma_locals.mean_valid = Num(0)
               /\ gamma_locals.raised = "ValueError"
               /\ C13_NoOutput
        /\ C13_MeanIs(Scale) =>
               /\ gamma_locals.mean_valid = Num(Scale)
               /\ gamma_locals.raised =
                      (IF bright > 0 THEN "ZeroDivisionError"
                       ELSE "ValueError")
               /\ C13_NoOutput

C13_Witness ==
    /\ gamma_locals.called
    /\ C13_MeanIs(0)
    /\ bright = NotebookBright
    /\ gamma_locals.raised = "ValueError"
    /\ \E b \in DOMAIN gamma_locals.before :
           \E c \in DOMAIN gamma_locals.before[b] :
               ~C4_IsValid(gamma_locals.before[b][c])
    /\ C13_NoOutput

\* C14 as stated, whatever the error is called: gamma_adjust fails, and
\* produces no normalized output, whenever bright does not lie strictly
\* between 0 and 1.
C14_FailsOutOfRange ==
    (gamma_locals.called /\ (bright <= 0 \/ bright >= Scale))
    => /\ gamma_locals.raised # "none"
       /\ C13_NoOutput

\* label w of coordinate W is as close to v as any label of W
C15_Closest(W, w, v) == \A k \in DOMAIN W : Abs(w - v) <= Abs(W[k] - v)

\* C15: the record of every query point (x, y) holds the full spectrum of
\* one cell of the regridded cube, whose longitude is a grid longitude
\* closest to x and whose latitude is a grid latitude closest to y, each
\* axis on its own.
C15_PerAxisNearest ==
    Exported =>
        \A i \in DOMAIN data :
            \E c \in Cells(env["sr_dst"]) :
                /\ C15_Closest(grid.lon, CellLon(grid, c), data[i].longitude)
                /\ C15_Closest(grid.lat, CellLat(grid, c), data[i].latitude)
                /\ Len(rows[i + 1]) = 3 + NBands(env["sr_dst"])
                /\ \A k \in 1..NBands(env["sr_dst"]) :
                       rows[i + 1][3 + k] =
                           ReflCell(Values(env["sr_dst"])[k][c])

C15_Witness ==
    /\ Exported
    /\ Len(data) >= 2
    /\ data[1].longitude = x_start /\ data[1].latitude = y_start
    /\ x_start \notin Range(grid.lon) /\ y_start \notin Range(grid.lat)
    /\ data[2].longitude # x_start
    /\ \A k \in 1..NBands(env["sr_dst"]) :
           /\ IsNum(rows[2][3 + k].x) /\ IsNum(rows[3][3 + k].x)
           /\ rows[2][3 + k] # rows[3][3 + k]
           /\ rows[2][3 + k] =
                  ReflCell(Values(env["sr_dst"])[k][CellOf(grid, 1, 2)])

\* every band of cube is a band of the regridded cube
C16_FromRegridded(cube) ==
    \A k \in DOMAIN cube : cube[k] \in Range(Values(env["sr_dst"]))

\* C16: the transpose runs on the masked cube, the regridder on the
\* transposed, band-first cube and never on another, and rgb_da, the
\* triplet gamma_adjust is given, the bands of the indices and the exported
\* spectra are all taken from the regridded cube.
C16_PipelineOrder ==
    /\ pc \in {"sel860", "mask"} => env["rhos"] = None
    /\ pc \in {"sel860", "mask", "transpose"} => env["sr_src"] = None
    /\ pc \in {"sel860", "mask", "transpose", "reproject"} =>
           env["sr_dst"] = None /\ env["rgb_da"] = None /\ env["cire"] = None
    /\ env["sr_src"] # None =>
           /\ env["rhos"] # None
           /\ obj[env["sr_src"]].buf = obj[env["rhos"]].buf
           /\ obj[env["sr_src"]].bands = obj[env["rhos"]].bands
    /\ pc = "reproject" =>
           /\ obj[env["sr_src"]].dims = "byx"
           /\ Values(env["sr_src"]) =
                  Where(Values(env["ds_rhos"]), cldwater_mask)
    /\ env["sr_dst"] # None =>
           /\ env["sr_src"] # None
           /\ obj[env["sr_src"]].dims = "byx"
           /\ obj[env["sr_dst"]].space = "grid"
    /\ pc = "rgb" =>
           Values(env["sr_dst"]) =
               Reproject(Values(env["sr_src"]), geoloc, grid)
    /\ env["rgb_da"] # None =>
           /\ env["sr_dst"] # None
           /\ obj[env["rgb_da"]].space = "grid"
           /\ ~gamma_locals.called => C16_FromRegridded(Values(env["rgb_da"]))
    /\ gamma_locals.called =>
           /\ gamma_locals.arg = env["rgb_da"]
           /\ C16_FromRegridded(gamma_locals.before)
    /\ \A n \in {"sr_800", "sr_705", "sr_495", "cire", "car"} :
           env[n] # None =>
               /\ env["sr_dst"] # None
               /\ obj[env[n]].space = "grid"
               /\ n \notin {"cire", "car"} =>
                      C16_FromRegridded(Values(env[n]))
    /\ Exported =>
           \A i \in DOMAIN data :
               \E c \in Cells(env["sr_dst"]) :
                   \A k \in 1..NBands(env["sr_dst"]) :
                       rows[i + 1][3 + k] =
                           ReflCell(Values(env["sr_dst"])[k][c])

C16_Witness ==
    /\ pc = "done"
    /\ env["car"] # None /\ env["cire"] # None /\ env["rgb_da"] # None
    /\ gamma_locals.called
    /\ Len(rows) >= 2
    /\ \E p \in DOMAIN cldwater_mask : ~cldwater_mask[p]
    /\ \E c \in Cells(env["sr_dst"]) : IsNaN(Values(env["sr_dst"])[1][c])
    /\ \E c \in Cells(env["sr_dst"]) : IsNum(Values(env["sr_dst"])[1][c])
    /\ Values(env["sr_dst"]) # Values(env["sr_src"])

\* C17: when gamma_adjust(t, bright) returns, the object returned is t, the
\* name rgb_da is bound to it, and t holds the normalized values: reading
\* t gives value ** gamma clipped to [0, 1], not the values it held at the
\* call.
C17_WritesBack ==
    (gamma_locals.called /\ gamma_locals.raised = "none") =>
        /\ gamma_locals.ret = gamma_locals.arg
        /\ env["rgb_da"] = gamma_locals.arg
        /\ Len(obj) = 1
        /\ Values(gamma_locals.arg) =
               Clipped(Scaled(gamma_locals.before, gamma_locals.gamma))
        /\ \A b \in DOMAIN gamma_locals.before :
               \A c \in DOMAIN gamma_locals.before[b] :
                   C4_IsValid(gamma_locals.before[b][c]) =>
                       Values(gamma_locals.arg)[b][c] =
                           FClip(FPow(gamma_locals.before[b][c],
                                      gamma_locals.gamma), 0, Scale)

C17_Witness ==
    /\ gamma_locals.called
    /\ gamma_locals.raised = "none"
    /\ bright = NotebookBright
    /\ gamma_locals.ret = gamma_locals.arg
    /\ \A b \in DOMAIN gamma_locals.before :
           \A c \in DOMAIN gamma_locals.before[b] :
               /\ gamma_locals.before[b][c] = Num(Scale \div 10)
               /\ IsNum(Values(gamma_locals.arg)[b][c])
               /\ Values(gamma_locals.arg)[b][c] # gamma_locals.before[b][c]

\* the point at position i of pts is drawn where the point at position j
\* of qts is
C18_SamePlace(pts, i, qts, j) ==
    /\ pts[i].longitude = qts[j].longitude
    /\ pts[i].latitude = qts[j].latitude

\* C18: after every run of click_spectra the point at position i of the
\* stream has id i, counting from 0; when a point is removed, every point
\* behind it moves up one position and its id goes down by one; the id
\* exported in each row is the row's position among the rows of points.
C18_IdsFollowPosition ==
    /\ [](\A i \in DOMAIN points_stream : points_stream[i].id = i - 1)
    /\ [](Exported =>
             \A i \in DOMAIN data : rows[i + 1][1] = IntCell(i - 1))
    /\ [][last_event' = "remove" /\ events' = events + 1 =>
             /\ Len(points_stream') = Len(points_stream) - 1
             /\ \E j \in DOMAIN points_stream :
                    /\ \A i \in 1..(j - 1) :
                           /\ C18_SamePlace(points_stream', i, points_stream, i)
                           /\ points_stream'[i].id = points_stream[i].id
                    /\ \A i \in (j + 1)..Len(points_stream) :
                           /\ C18_SamePlace(points_stream', i - 1,
                                            points_stream, i)
                           /\ points_stream'[i - 1].id =
                                  points_stream[i].id - 1]_vars

C18_Witness ==
    /\ Exported
    /\ last_event = "remove"
    /\ Len(data) >= 2
    /\ data[1].longitude # x_start
    /\ data[1].id = 0 /\ data[2].id = 1
    /\ rows[2][1] = IntCell(0) /\ rows[3][1] = IntCell(1)
====
